---- MODULE Spec2Model ----
(***************************************************************************)
(* Model of src/sieve.rs of slow_primes: the odd-only sieve store          *)
(* (Primes), its primality query, its double-ended prime iterator          *)
(* (PrimeIterator) and the trial-division factoriser built on them.        *)
(*                                                                         *)
(* The BitVec `v` is a function 0..len-1 -> BOOLEAN, so bit indices are    *)
(* the source's indices; flag i stands for the number 2*i+1.               *)
(* usize arithmetic is modelled on unbounded integers: every value the     *)
(* bounded inputs below can produce is far below 2^64.                     *)
(***************************************************************************)
EXTENDS Integers, Sequences, FiniteSets

VARIABLES limit,      \* the limit sieve() was called with
          v,          \* Primes.v of the sieve under test
          longLimit,  \* the limit of the second, longer sieve
          long,       \* Primes.v of the second sieve
          iter,       \* the PrimeIterator handed out by primes()
          fwd,        \* history: values next() returned on iter, in order
          bwd,        \* history: values next_back() returned on iter, in order
          done,       \* history: a call on iter has returned None
          ret         \* the return value the caller is holding, or NoRet

vars == <<limit, v, longLimit, long, iter, fwd, bwd, done, ret>>

\* ------------------------------------------------------------------ bounds

\* Largest limit sieve() is called with.
MaxLimit == 31
\* Largest number handed to factor().
MaxN == 3500
\* Largest number handed to is_prime().
MaxQuery == 40
\* Largest limit of the short sieve, and largest number factored, when two
\* sieves are compared.
MaxShort == 16
MaxCompare == 300
\* Largest distance of an estimate_prime_pi bound from the true count.
MaxSlack == 1

\* cmp::max(10, limit): the smallest working limit.
MinLimit == 10

\* ------------------------------------------------------------ ground truth
\* Number theory by plain trial division, independent of the sieve; used by
\* the properties (and by the stand-in for estimate_prime_pi) only.

\* The smallest divisor >= d of n >= 2, given that none lies in 2..d-1.
RECURSIVE LeastDivFrom(_, _)
LeastDivFrom(n, d) ==
    IF d * d > n THEN n
    ELSE IF n % d = 0 THEN d ELSE LeastDivFrom(n, d + 1)

\* Primality by trial division.
IsPrimeTD(n) ==
    n >= 2 /\ LeastDivFrom(n, 2) = n

\* The number of primes <= n.
PrimePi(n) ==
    Cardinality({p \in 2..n : IsPrimeTD(p)})

\* The prime factors of n >= 1 in nondecreasing order, with multiplicity.
RECURSIVE PrimeFactorsTD(_)
PrimeFactorsTD(n) ==
    IF n <= 1 THEN <<>>
    ELSE LET d == LeastDivFrom(n, 2) IN <<d>> \o PrimeFactorsTD(n \div d)

\* The exponent of p >= 2 in n >= 1.
RECURSIVE ExponentIn(_, _)
ExponentIn(p, n) ==
    IF n % p = 0 THEN 1 + ExponentIn(p, n \div p) ELSE 0

RECURSIVE Pow(_, _)
Pow(b, e) ==
    IF e = 0 THEN 1 ELSE b * Pow(b, e - 1)

\* The product of prime^exponent over a sequence of (prime, exponent) pairs.
RECURSIVE Product(_)
Product(pairs) ==
    IF pairs = <<>> THEN 1
    ELSE Pow(Head(pairs)[1], Head(pairs)[2]) * Product(Tail(pairs))

Range(s) == {s[k] : k \in 1..Len(s)}

StrictlyIncreasing(s) == \A k \in 1..(Len(s) - 1) : s[k] < s[k + 1]

StrictlyDecreasing(s) == \A k \in 1..(Len(s) - 1) : s[k] > s[k + 1]

\* The first components of a sequence of (prime, exponent) pairs.
Firsts(pairs) == [k \in 1..Len(pairs) |-> pairs[k][1]]

\* The prime factors of n larger than u, with multiplicity.
FactorsAbove(n, u) == SelectSeq(PrimeFactorsTD(n), LAMBDA p : p > u)

\* The largest odd number <= m.
LargestOddLeq(m) == IF m % 2 = 1 THEN m ELSE m - 1

\* ------------------------------------------------------------------- sieve

Max(a, b) == IF a >= b THEN a ELSE b
Min(a, b) == IF a <= b THEN a ELSE b

\* (limit as f64).sqrt() as usize: exact for the limits modelled.
ISqrt(n) ==
    CHOOSE r \in 0..n : r * r <= n /\ (r + 1) * (r + 1) > n

\* The while loop of filter(): clears zero, zero+p, ... below limit / 2.
RECURSIVE filterFrom(_, _, _, _)
filterFrom(is_prime, lim, zero, p) ==
    IF zero < lim \div 2
    THEN filterFrom([is_prime EXCEPT ![zero] = FALSE], lim, zero + p, p)
    ELSE is_prime

filter(is_prime, lim, check, p) ==
    filterFrom(is_prime, lim, 2 * check * (check + 1), p)

\* The while loop of sieve() over the candidate indices check.
RECURSIVE sieveLoop(_, _, _, _, _)
sieveLoop(is_prime, lim, bound, check, tick) ==
    IF check <= bound
    THEN sieveLoop(IF is_prime[check]
                   THEN filter(is_prime, lim, check, 2 * check + 1)
                   ELSE is_prime,
                   lim, bound, check + tick, 3 - tick)
    ELSE is_prime

\* Mutant of sieve: allocates limit / 2 + 1 flags, one too many for an even
\* limit.
sieve_roundsUp(requested) ==
    LET lim == Max(MinLimit, requested)
        fresh == [i \in 0..(lim \div 2) |-> TRUE]
        noOne == [fresh EXCEPT ![0] = FALSE]
        noThrees == filter(noOne, lim, 1, 3)
        bound == ISqrt(lim) + 1
    IN  sieveLoop(noThrees, lim, bound, 2, 1)

\* Primes::sieve: the flags of the store built for a requested limit.
sieve(requested) ==
    LET lim == Max(MinLimit, requested)
        fresh == [i \in 0..((lim + 1) \div 2 - 1) |-> TRUE]
        noOne == [fresh EXCEPT ![0] = FALSE]
        noThrees == filter(noOne, lim, 1, 3)
        bound == ISqrt(lim) + 1
        check == 2
        tick == IF check % 3 = 1 THEN 2 ELSE 1
    IN  sieveLoop(noThrees, lim, bound, check, tick)

\* BitVec::len
len(bits) == Cardinality(DOMAIN bits)

\* Mutant of upper_bound: forgets the - 1.
upper_bound_offByOne(bits) == len(bits) * 2 + 1

\* Primes::upper_bound
upper_bound(bits) == (len(bits) - 1) * 2 + 1

\* Mutant of is_prime: asserts n < upper_bound() instead of <=.
is_prime_strictAssert(bits, n) ==
    IF n % 2 = 0
    THEN [panicked |-> FALSE, value |-> (n = 2)]
    ELSE IF n < (len(bits) - 1) * 2 + 1
         THEN [panicked |-> FALSE, value |-> bits[n \div 2]]
         ELSE [panicked |-> TRUE, value |-> FALSE]

\* Primes::is_prime: the boolean returned, or the assertion's panic.
is_prime(bits, n) ==
    IF n % 2 = 0
    THEN [panicked |-> FALSE, value |-> (n = 2)]
    ELSE IF n <= upper_bound(bits)
         THEN [panicked |-> FALSE, value |-> bits[n \div 2]]
         ELSE [panicked |-> TRUE, value |-> FALSE]

\* ---------------------------------------------------------------- iterator

\* Option<usize>
Some(x) == [some |-> TRUE, val |-> x]
None == [some |-> FALSE, val |-> 0]

\* Primes::primes: `two` is pending and the enumerated bit iterator covers
\* the indices front..back-1.
primes(bits) == [two |-> TRUE, front |-> 0, back |-> len(bits)]

\* The for loop of next(): the first set flag at or after index i, consuming
\* every index it passes.
RECURSIVE scanForward(_, _, _)
scanForward(bits, it, i) ==
    IF i >= it.back
    THEN [item |-> None, it |-> [it EXCEPT !.front = it.back]]
    ELSE IF bits[i]
         THEN [item |-> Some(2 * i + 1), it |-> [it EXCEPT !.front = i + 1]]
         ELSE scanForward(bits, it, i + 1)

\* PrimeIterator::next: the item returned and the iterator afterwards.
next(bits, it) ==
    IF it.two
    THEN [item |-> Some(2), it |-> [it EXCEPT !.two = FALSE]]
    ELSE scanForward(bits, it, it.front)

\* Mutant of the loop of next_back(): walks down to index 0 whatever the
\* front cursor has consumed.
RECURSIVE scanBackward_ignoresFront(_, _, _)
scanBackward_ignoresFront(bits, it, i) ==
    IF i <= 0
    THEN IF it.two
         THEN [item |-> Some(2), it |-> [it EXCEPT !.back = 0, !.two = FALSE]]
         ELSE [item |-> None, it |-> [it EXCEPT !.back = 0]]
    ELSE IF bits[i - 1]
         THEN [item |-> Some(2 * (i - 1) + 1), it |-> [it EXCEPT !.back = i - 1]]
         ELSE scanBackward_ignoresFront(bits, it, i - 1)

\* The loop of next_back(): the last set flag below index i, consuming
\* every index it passes; 2 once the bit iterator is empty.
RECURSIVE scanBackward(_, _, _)
scanBackward(bits, it, i) ==
    IF i <= it.front
    THEN IF it.two
         THEN [item |-> Some(2), it |-> [it EXCEPT !.back = it.front, !.two = FALSE]]
         ELSE [item |-> None, it |-> [it EXCEPT !.back = it.front]]
    ELSE IF bits[i - 1]
         THEN [item |-> Some(2 * (i - 1) + 1), it |-> [it EXCEPT !.back = i - 1]]
         ELSE scanBackward(bits, it, i - 1)

\* PrimeIterator::next_back: the item returned and the iterator afterwards.
next_back(bits, it) == scanBackward(bits, it, it.back)

\* Iterator::count on a clone: the number of items next() still yields.
RECURSIVE count(_, _)
count(bits, it) ==
    LET r == next(bits, it)
    IN  IF r.item.some THEN 1 + count(bits, r.it) ELSE 0

\* Every value the iterator of a store yields: 2 and 2*i+1 for each set flag.
Stored(bits) == {2} \cup {2 * i + 1 : i \in {j \in DOMAIN bits : bits[j]}}

\* ::estimate_prime_pi(n) lies outside sieve.rs: any (lower, upper) with
\* lower <= pi(n) <= upper, here at most MaxSlack away from pi(n).
estimate_prime_pi(n) ==
    {<<lo, hi>> \in (0..PrimePi(n)) \X (PrimePi(n)..(PrimePi(n) + MaxSlack)) :
        lo >= PrimePi(n) - MaxSlack}

\* PrimeIterator::size_hint, given the two estimates it asks for: est_hi is
\* used only when both ends exist, est_lo likewise.
size_hint(bits, it, est_hi, est_lo) ==
    LET first == next(bits, it)
        last == next_back(bits, first.it)
    IN  IF first.item.some /\ last.item.some
        THEN LET below_hi == est_hi[1]
                 above_hi == est_hi[2]
                 below_lo == est_lo[1]
                 above_lo == est_lo[2]
             IN  <<below_hi - Min(above_lo, below_hi), above_hi - below_lo + 1>>
        ELSE IF first.item.some
             THEN <<1, 1>>
             ELSE <<0, 0>>

\* The two values size_hint peeks at (0 where there is none).
PeekLo(bits, it) == next(bits, it).item.val
PeekHi(bits, it) == next_back(bits, next(bits, it).it).item.val

\* ------------------------------------------------------------------ factor

\* Result<Factors, (usize, Factors)>; Ok carries no leftover (held at 0).
Ok(factors) == [ok |-> TRUE, leftover |-> 0, factors |-> factors]
Err(leftover, factors) == [ok |-> FALSE, leftover |-> leftover, factors |-> factors]

\* Mutant of the division loop: an `if` where the code has a `while`.
divideOut_once(n, p, cnt) ==
    IF n % p = 0 THEN [n |-> n \div p, count |-> cnt + 1] ELSE [n |-> n, count |-> cnt]

\* while n % p == 0 { n /= p; count += 1 }
RECURSIVE divideOut(_, _, _)
divideOut(n, p, cnt) ==
    IF n % p = 0 THEN divideOut(n \div p, p, cnt + 1) ELSE [n |-> n, count |-> cnt]

\* for p in self.primes() { ... }: the quotient and pairs when the loop ends.
RECURSIVE factorLoop(_, _, _, _)
factorLoop(bits, it, n, pairs) ==
    LET r == next(bits, it)
    IN  IF ~r.item.some \/ n = 1
        THEN [n |-> n, ret |-> pairs]
        ELSE LET p == r.item.val
                 d == divideOut(n, p, 0)
             IN  factorLoop(bits, r.it, d.n,
                            IF d.count > 0 THEN Append(pairs, <<p, d.count>>) ELSE pairs)

\* Mutant of factor: compares the leftover with b, not with b * b.
factor_boundNotSquared(bits, n0) ==
    IF n0 = 0 THEN Err(0, <<>>)
    ELSE LET l == factorLoop(bits, primes(bits), n0, <<>>)
             b == upper_bound(bits)
         IN  IF l.n # 1
             THEN IF b >= l.n
                  THEN Ok(Append(l.ret, <<l.n, 1>>))
                  ELSE Err(l.n, l.ret)
             ELSE Ok(l.ret)

\* Mutant of factor: on failure hands back the input, not the quotient left.
factor_errKeepsInput(bits, n0) ==
    IF n0 = 0 THEN Err(0, <<>>)
    ELSE LET l == factorLoop(bits, primes(bits), n0, <<>>)
             b == upper_bound(bits)
         IN  IF l.n # 1
             THEN IF b * b >= l.n
                  THEN Ok(Append(l.ret, <<l.n, 1>>))
                  ELSE Err(n0, l.ret)
             ELSE Ok(l.ret)

\* Primes::factor
factor(bits, n0) ==
    IF n0 = 0 THEN Err(0, <<>>)
    ELSE LET l == factorLoop(bits, primes(bits), n0, <<>>)
             b == upper_bound(bits)
         IN  IF l.n # 1
             THEN IF b * b >= l.n
                  THEN Ok(Append(l.ret, <<l.n, 1>>))
                  ELSE Err(l.n, l.ret)
             ELSE Ok(l.ret)

\* ------------------------------------------------------------------ state

\* The caller holds no return value.
NoRet == [op |-> "none"]

NoIter == [two |-> FALSE, front |-> 0, back |-> 0]

Init ==
    /\ limit \in 0..MaxLimit
    /\ v = sieve(limit)
    /\ longLimit = limit
    /\ long = v
    /\ iter = NoIter
    /\ fwd = <<>>
    /\ bwd = <<>>
    /\ done = FALSE
    /\ ret = NoRet

\* The caller calls upper_bound().
UpperBound ==
    /\ ret = NoRet
    /\ ret' = [op |-> "upper_bound", out |-> upper_bound(v)]
    /\ UNCHANGED <<limit, v, longLimit, long, iter, fwd, bwd, done>>

\* The caller calls is_prime(n).
IsPrime(n) ==
    /\ ret = NoRet
    /\ ret' = [op |-> "is_prime", arg |-> n, out |-> is_prime(v, n)]
    /\ UNCHANGED <<limit, v, longLimit, long, iter, fwd, bwd, done>>

\* The caller calls factor(n).
Factor(n) ==
    /\ ret = NoRet
    /\ ret' = [op |-> "factor", arg |-> n, out |-> factor(v, n)]
    /\ UNCHANGED <<limit, v, longLimit, long, iter, fwd, bwd, done>>

\* The caller drops the value it was returned.
Return ==
    /\ ret # NoRet
    /\ ret' = NoRet
    /\ UNCHANGED <<limit, v, longLimit, long, iter, fwd, bwd, done>>

Next ==
    \/ UpperBound
    \/ \E n \in 0..MaxQuery : IsPrime(n)
    \/ \E n \in 0..MaxN : Factor(n)
    \/ Return

Spec == Init /\ [][Next]_vars

\* ------------------------------------------------- iterating over a sieve

\* A sieve and the iterator primes() hands out for it.
InitIter ==
    /\ limit \in 0..MaxLimit
    /\ v = sieve(limit)
    /\ longLimit = limit
    /\ long = v
    /\ iter = primes(v)
    /\ fwd = <<>>
    /\ bwd = <<>>
    /\ done = FALSE
    /\ ret = NoRet

\* The caller drops its iterator and takes a fresh one from primes().
Primes ==
    /\ ret = NoRet
    /\ iter' = primes(v)
    /\ fwd' = <<>>
    /\ bwd' = <<>>
    /\ done' = FALSE
    /\ UNCHANGED <<limit, v, longLimit, long, ret>>

\* The caller calls iter.next().
IterNext ==
    /\ ret = NoRet
    /\ LET r == next(v, iter)
       IN  /\ iter' = r.it
           /\ fwd' = IF r.item.some THEN Append(fwd, r.item.val) ELSE fwd
           /\ done' = (done \/ ~r.item.some)
           /\ ret' = [op |-> "next", out |-> r.item]
    /\ UNCHANGED <<limit, v, longLimit, long, bwd>>

\* The caller calls iter.next_back().
IterNextBack ==
    /\ ret = NoRet
    /\ LET r == next_back(v, iter)
       IN  /\ iter' = r.it
           /\ bwd' = IF r.item.some THEN Append(bwd, r.item.val) ELSE bwd
           /\ done' = (done \/ ~r.item.some)
           /\ ret' = [op |-> "next_back", out |-> r.item]
    /\ UNCHANGED <<limit, v, longLimit, long, fwd>>

\* The caller calls iter.size_hint(); estimate_prime_pi answers with any
\* admissible bounds. The iterator itself is untouched (size_hint clones).
SizeHint ==
    /\ ret = NoRet
    /\ \E est_hi \in estimate_prime_pi(PeekHi(v, iter)),
          est_lo \in estimate_prime_pi(PeekLo(v, iter)) :
            ret' = [op |-> "size_hint", out |-> size_hint(v, iter, est_hi, est_lo)]
    /\ UNCHANGED <<limit, v, longLimit, long, iter, fwd, bwd, done>>

NextIter ==
    \/ Primes
    \/ IterNext
    \/ IterNextBack
    \/ SizeHint
    \/ Return

SpecIter == InitIter /\ [][NextIter]_vars

\* ------------------------------------------------- two sieves side by side

\* A short sieve and a longer one, as in tests::factor_compare.
InitCompare ==
    /\ limit \in 0..MaxShort
    /\ v = sieve(limit)
    /\ longLimit \in (limit + 1)..(MaxLimit + 1)
    /\ long = sieve(longLimit)
    /\ iter = NoIter
    /\ fwd = <<>>
    /\ bwd = <<>>
    /\ done = FALSE
    /\ ret = NoRet

\* The caller factors n with both sieves.
FactorBoth(n) ==
    /\ ret = NoRet
    /\ ret' = [op |-> "factor_both", arg |-> n,
               short |-> factor(v, n), long |-> factor(long, n)]
    /\ UNCHANGED <<limit, v, longLimit, long, iter, fwd, bwd, done>>

NextCompare ==
    \/ \E n \in 0..MaxCompare : FactorBoth(n)
    \/ Return

SpecCompare == InitCompare /\ [][NextCompare]_vars

\* -------------------------------------------------------------- properties

\* C1: for every limit, is_prime(n) equals trial-division primality for every
\* n from 0 through upper_bound(): flag 0 is false, the flag of every odd
\* prime is true and the flag of every odd composite is false.
C1_IsPrimeMatchesTrialDivision ==
    (ret.op = "is_prime" /\ ret.arg <= upper_bound(v))
        => /\ ~ret.out.panicked
           /\ ret.out.value = IsPrimeTD(ret.arg)
           /\ ret.arg % 2 = 1 => v[ret.arg \div 2] = IsPrimeTD(ret.arg)

\* C2: for n >= 1, factor(n) returns Err if and only if n has a prime factor
\* larger than U^2 or more than one prime factor (with multiplicity) larger
\* than U, where U = upper_bound(); every n with 1 <= n < U^2 returns Ok.
C2_FactorErrIffFactorsTooLarge ==
    (ret.op = "factor" /\ ret.arg >= 1)
        => LET U == upper_bound(v)
               big == FactorsAbove(ret.arg, U)
           IN  /\ ~ret.out.ok <=> \/ \E k \in 1..Len(big) : big[k] > U * U
                                  \/ Len(big) > 1
               /\ ret.arg < U * U => ret.out.ok

\* C2's case: factor failed on a number with two prime factors above U, none
\* of them above U^2.
C2_Witness ==
    /\ ret.op = "factor"
    /\ ret.arg >= 1
    /\ ~ret.out.ok
    /\ LET U == upper_bound(v)
           big == FactorsAbove(ret.arg, U)
       IN  Len(big) = 2 /\ \A k \in 1..Len(big) : big[k] <= U * U

\* C3: whenever factor(n) returns Ok(pairs) for n >= 1, every first component
\* is prime, first components strictly increase, every exponent is >= 1 and
\* the product of prime^exponent is n; factor(1) is Ok of the empty sequence.
C3_OkIsPrimeFactorisation ==
    (ret.op = "factor" /\ ret.arg >= 1)
        => /\ ret.out.ok
              => /\ \A k \in 1..Len(ret.out.factors) :
                        /\ IsPrimeTD(ret.out.factors[k][1])
                        /\ ret.out.factors[k][2] >= 1
                 /\ StrictlyIncreasing(Firsts(ret.out.factors))
                 /\ Product(ret.out.factors) = ret.arg
           /\ ret.arg = 1 => ret.out = Ok(<<>>)

\* C3's case: factor succeeded with stored primes followed by a final factor
\* above upper_bound() that was inferred, not looked up.
C3_Witness ==
    /\ ret.op = "factor"
    /\ ret.out.ok
    /\ Len(ret.out.factors) >= 3
    /\ ret.out.factors[1][2] >= 2
    /\ ret.out.factors[Len(ret.out.factors)][1] > upper_bound(v)

\* C4: whenever factor(n) returns Err((leftover, partial)): for n = 0 it is
\* (0, []); otherwise leftover > 1, leftover * product(partial) = n, partial
\* lists in strictly increasing order exactly the primes the sieve stores
\* that divide n, each with its full exponent in n, and leftover is divisible
\* by no value the sieve stores.
C4_ErrIsPartialFactorisation ==
    (ret.op = "factor" /\ ~ret.out.ok)
        => IF ret.arg = 0
           THEN ret.out.leftover = 0 /\ ret.out.factors = <<>>
           ELSE /\ ret.out.leftover > 1
                /\ ret.out.leftover * Product(ret.out.factors) = ret.arg
                /\ StrictlyIncreasing(Firsts(ret.out.factors))
                /\ Range(Firsts(ret.out.factors))
                     = {p \in Stored(v) : IsPrimeTD(p) /\ ret.arg % p = 0}
                /\ \A k \in 1..Len(ret.out.factors) :
                     ret.out.factors[k][2]
                       = ExponentIn(ret.out.factors[k][1], ret.arg)
                /\ \A p \in Stored(v) : ret.out.leftover % p # 0

\* C4's case: factor failed after dividing out at least two stored primes.
C4_Witness ==
    /\ ret.op = "factor"
    /\ ret.arg >= 1
    /\ ~ret.out.ok
    /\ Len(ret.out.factors) >= 2
    /\ ret.out.leftover > upper_bound(v) * upper_bound(v)

\* C5: at every point while consuming primes(), size_hint() returns (lo, hi)
\* with lo <= (number of elements the iterator still yields) <= hi, for any
\* admissible estimate_prime_pi; (1,1) when exactly one element remains and
\* (0,0) when none remain.
C5_SizeHintBracketsRemaining ==
    ret.op = "size_hint"
        => LET remaining == count(v, iter)
           IN  /\ ret.out[1] <= remaining
               /\ remaining <= ret.out[2]
               /\ remaining = 1 => ret.out = <<1, 1>>
               /\ remaining = 0 => ret.out = <<0, 0>>

\* C6: for two sieves with limits S < L and any n with 0 <= n <= (upper
\* bound of the S-sieve)^2, both sieves return the same factor(n).
C6_ShortAgreesWithLong ==
    (ret.op = "factor_both" /\ ret.arg <= upper_bound(v) * upper_bound(v))
        => ret.short = ret.long

\* C6's case: a number whose largest prime factor the short sieve inferred
\* and the long sieve looked up.
C6_Witness ==
    /\ ret.op = "factor_both"
    /\ ret.arg <= upper_bound(v) * upper_bound(v)
    /\ ret.short.ok
    /\ Len(ret.short.factors) >= 2
    /\ LET q == ret.short.factors[Len(ret.short.factors)][1]
       IN  q > upper_bound(v) /\ q <= upper_bound(long)

\* C7: factor(n) returns Ok for every n with 1 <= n <= limit^2, limit being
\* the limit the sieve was built with.
C7_FactorsUpToLimitSquared ==
    (ret.op = "factor" /\ 1 <= ret.arg /\ ret.arg <= limit * limit)
        => ret.out.ok

\* C8: upper_bound() is odd and equals 2*(len-1)+1; it is >= the requested
\* limit whenever the limit is odd, and it is the largest odd number
\* <= max(10, limit).
C8_UpperBound ==
    ret.op = "upper_bound"
        => /\ ret.out % 2 = 1
           /\ ret.out = 2 * (len(v) - 1) + 1
           /\ limit % 2 = 1 => ret.out >= limit
           /\ ret.out = LargestOddLeq(Max(MinLimit, limit))

\* C8's case: upper_bound() of a sieve built with an odd limit above the
\* smallest working limit.
C8_Witness ==
    /\ ret.op = "upper_bound"
    /\ limit % 2 = 1
    /\ limit > MinLimit
    /\ ret.out = limit

\* C9 as stated: is_prime(n) aborts for every n > upper_bound() and never
\* aborts for n <= upper_bound().
C9_AbortsIffAboveUpperBound ==
    ret.op = "is_prime"
        => (ret.out.panicked <=> ret.arg > upper_bound(v))

\* C9, amended: is_prime(n) aborts exactly for the odd n > upper_bound(); for
\* every even n, also above upper_bound(), it returns n = 2.
C9_AbortsIffOddAboveUpperBound ==
    ret.op = "is_prime"
        => /\ ret.out.panicked <=> (ret.arg % 2 = 1 /\ ret.arg > upper_bound(v))
           /\ ret.arg % 2 = 0 => ret.out.value = (ret.arg = 2)

\* C9's case: is_prime answered, without aborting, for an even number above
\* upper_bound().
C9_Witness ==
    /\ ret.op = "is_prime"
    /\ ret.arg > upper_bound(v)
    /\ ret.arg % 2 = 0
    /\ ~ret.out.panicked
    /\ ~ret.out.value

\* C10: under any interleaving of next() and next_back() on a fresh
\* iterator: next() values strictly increase and begin with 2; next_back()
\* values strictly decrease and 2 comes from next_back() only after every
\* stored odd entry is consumed; every next() value is smaller than every
\* next_back() value; each element is returned exactly once across both
\* directions; once a call returned None every call returns None. Hence the
\* forward values followed by the reversed backward values are, at the end,
\* the stored values in increasing order.
C10_DoubleEndedIteration ==
    LET all == fwd \o bwd
    IN  /\ StrictlyIncreasing(fwd)
        /\ fwd # <<>> => fwd[1] = 2
        /\ StrictlyDecreasing(bwd)
        /\ 2 \in Range(bwd) => Stored(v) = Range(all)
        /\ \A a \in Range(fwd) : \A b \in Range(bwd) : a < b
        /\ Range(all) \subseteq Stored(v)
        /\ Cardinality(Range(all)) = Len(all)
        /\ count(v, iter) = Cardinality(Stored(v)) - Len(all)
        /\ done => /\ Range(all) = Stored(v)
                   /\ count(v, iter) = 0
                   /\ ret.op \in {"next", "next_back"} => ~ret.out.some

\* C10's case: the iterator was exhausted by interleaved calls, 2 having
\* come from next() and at least two values from each direction.
C10_Witness ==
    /\ done
    /\ Len(fwd) >= 2
    /\ fwd[1] = 2
    /\ Len(bwd) >= 2
    /\ ret.op \in {"next", "next_back"}

====
